---- MODULE Spec2Model ----
(***************************************************************************)
(* Model of seabird_processing/batch.py: class Batch.                      *)
(*                                                                         *)
(* A text is a sequence of tokens.  A token is a chunk of characters that  *)
(* holds neither a newline nor a path separator; the newline and the path  *)
(* separator are tokens of their own, so that "\n".join and Path(...).name *)
(* are computed on the text and not assumed.                               *)
(***************************************************************************)
EXTENDS Integers, Sequences, FiniteSets, TLC

\* ------------------------------------------------------------------ bounds
MaxStages == 2      \* longest stage collection given to the constructor
MaxCalls == 3       \* calls made on one Batch object

\* --------------------------------------------------------------- constants
NL == "\n"
SEP == "/"
DOT == "."
config_header_comment == <<"@ Generated by the seabird-processing Python package">>
SBEBATCH == "sbebatch"
TMP_SUFFIX == ".txt"

\* The caller's input patterns: a bare pattern and one with a directory.
Patterns == { <<"raw*.hex">>, <<"data", SEP, "raw*.hex">> }

\* Exit statuses the external process can end with.
ExitCodes == {0, 1, 2}

\* ------------------------------------------------- stage descriptors (_SBEConfig)
\* A: declares a fixed output below a directory.
\* C: declares an output derived from its input, below a directory.
\* X: its exec-string function raises.
\* Y: its output-path function raises.
StageKinds == {"A", "C", "X", "Y"}

ExecRaises(k, p) == k = "X"

OutputRaises(k, p) == k = "Y"

get_exec_str(k, p, batch_mode) ==
    <<"stage" \o k \o " -i ">> \o p \o (IF batch_mode THEN <<>> ELSE <<" #w">>)

output_file_path(k, p) ==
    CASE k = "A" -> <<"dir", SEP, "out_a.cnv">>
      [] k = "C" -> <<"out", SEP>> \o p \o <<".cnv">>
      [] OTHER   -> <<"out_", k, ".cnv">>

\* ------------------------------------------------------------ pure helpers
Last(s) == s[Len(s)]

Front(s) == SubSeq(s, 1, Len(s) - 1)

\* pathlib drops trailing separators and "." components when it parses a path.
RECURSIVE StripTail(_)
StripTail(p) ==
    IF p = <<>> THEN p
    ELSE IF Last(p) = SEP THEN StripTail(Front(p))
    ELSE IF Last(p) = DOT /\ (Len(p) = 1 \/ p[Len(p) - 1] = SEP) THEN StripTail(Front(p))
    ELSE p

RECURSIVE LastSep(_)
LastSep(p) ==
    IF p = <<>> THEN 0
    ELSE IF Last(p) = SEP THEN Len(p)
    ELSE LastSep(Front(p))

PathName_keepdir(path) == path

\* Path(path).name: the final component, directory stripped.
PathName(path) ==
    LET q == StripTail(path)
    IN  SubSeq(q, LastSep(q) + 1, Len(q))

RECURSIVE Join_trailing(_)
Join_trailing(lines) ==
    IF lines = <<>> THEN <<>>
    ELSE lines[1] \o <<NL>> \o Join_trailing(Tail(lines))

\* "\n".join(lines)
RECURSIVE Join(_)
Join(lines) ==
    IF lines = <<>> THEN <<>>
    ELSE IF Len(lines) = 1 THEN lines[1]
    ELSE lines[1] \o <<NL>> \o Join(Tail(lines))

\* ------------------------------------------------------------- render loop
NoError == [stage |-> 0, fn |-> "none"]

StageCall(i, f, p, kw) == [stage |-> i, fn |-> f, arg |-> p, kwargs |-> kw]

Iterate_swapped(st, k, i) ==
    LET outc == StageCall(i, "output_file_path", st.next, {})
        exec == StageCall(i, "get_exec_str", st.next, {<<"batch_mode", TRUE>>})
    IN  IF OutputRaises(k, st.next)
        THEN [st EXCEPT !.log = Append(@, outc), !.consumed = i,
                        !.err = [stage |-> i, fn |-> "output_file_path"]]
        ELSE IF ExecRaises(k, st.next)
        THEN [st EXCEPT !.log = @ \o <<outc, exec>>, !.consumed = i,
                        !.err = [stage |-> i, fn |-> "get_exec_str"]]
        ELSE [st EXCEPT !.log = @ \o <<outc, exec>>, !.consumed = i,
                        !.lines = Append(@, get_exec_str(k, st.next, TRUE)),
                        !.next = PathName(output_file_path(k, st.next))]

\* One pass of the for loop's body over stage k, the i-th item of the collection.
Iterate(st, k, i) ==
    LET exec == StageCall(i, "get_exec_str", st.next, {<<"batch_mode", TRUE>>})
        outc == StageCall(i, "output_file_path", st.next, {})
    IN  IF ExecRaises(k, st.next)
        THEN [st EXCEPT !.log = Append(@, exec), !.consumed = i,
                        !.err = [stage |-> i, fn |-> "get_exec_str"]]
        ELSE IF OutputRaises(k, st.next)
        THEN [st EXCEPT !.log = @ \o <<exec, outc>>, !.consumed = i,
                        !.lines = Append(@, get_exec_str(k, st.next, TRUE)),
                        !.err = [stage |-> i, fn |-> "output_file_path"]]
        ELSE [st EXCEPT !.log = @ \o <<exec, outc>>, !.consumed = i,
                        !.lines = Append(@, get_exec_str(k, st.next, TRUE)),
                        !.next = PathName(output_file_path(k, st.next))]

\* for config in self.stages: ...   (a raise leaves the loop)
RECURSIVE Loop(_, _, _)
Loop(items, i, st) ==
    IF i > Len(items) \/ st.err # NoError THEN st
    ELSE Loop(items, i + 1, Iterate(st, items[i], i))

IterStart_shared(isList, pos) == pos + 1

\* iter(self.stages): a list hands out a fresh iterator, an iterator hands out
\* itself and goes on where it stopped.
IterStart(isList, pos) == IF isList THEN 1 ELSE pos + 1

\* Batch.get_batch_config_str: the locals when the call ends, the text it
\* returns (returned) or the exception it raises (err).
get_batch_config_str(items, start, input_file_pattern) ==
    LET st == Loop(items, start,
                   [lines |-> <<config_header_comment>>, next |-> input_file_pattern,
                    log |-> <<>>, err |-> NoError, consumed |-> start - 1])
        ok == st.err = NoError
    IN  [lines |-> st.lines, next |-> st.next, log |-> st.log, err |-> st.err,
         consumed |-> IF ok THEN Len(items) ELSE st.consumed,
         start |-> start, input |-> input_file_pattern,
         returned |-> ok, text |-> IF ok THEN Join(st.lines) ELSE <<>>]

\* ------------------------------------------------------------------- state
VARIABLES
    stages,     \* self.stages: the stage descriptors, in the order given
    isList,     \* TRUE: a reusable sequence; FALSE: a one-shot iterator
    itpos,      \* items the most recent iterator over self.stages has handed out
    ncalls,     \* calls started on the object so far
    op,         \* the call in progress or last finished: "none", "render", "run"
    pc,         \* position inside __call__; "idle" between calls
    input,      \* input_file_pattern of that call
    rnd,        \* get_batch_config_str of that call: locals, stage calls, outcome
    tmpfiles,   \* names of the temporary files that exist on the filesystem
    tmpBuf,     \* text written to config_file and not yet flushed
    tmpDisk,    \* content of config_file on the filesystem
    created,    \* temporary files the call has created so far
    invoked,    \* argument vectors the call has passed to subprocess.run
    proc,       \* the child process of the call: not started, running or exited (with its status)
    exc,        \* exception travelling out of the with block
    result,     \* what the caller observed when the last call ended
    returned    \* the (input, text) pairs get_batch_config_str has returned, in call order

vars == <<stages, isList, itpos, ncalls, op, pc, input, rnd, tmpfiles, tmpBuf,
          tmpDisk, created, invoked, proc, exc, result, returned>>

RECURSIVE SeqsUpTo(_, _)
SeqsUpTo(S, n) ==
    IF n = 0 THEN {<<>>}
    ELSE LET shorter == SeqsUpTo(S, n - 1)
         IN  shorter \cup {Append(s, x) : s \in shorter, x \in S}

Pipelines == SeqsUpTo(StageKinds, MaxStages)

NoRender == [lines |-> <<>>, next |-> <<>>, log |-> <<>>, err |-> NoError,
             consumed |-> 0, start |-> 0, input |-> <<>>,
             returned |-> FALSE, text |-> <<>>]

Outcome(kind, cmd, rc, err) == [kind |-> kind, cmd |-> cmd, returncode |-> rc, err |-> err]

NoOutcome == Outcome("none", <<>>, 0, NoError)

NoProcess == [st |-> "none", returncode |-> 0]

TmpName(n) == [id |-> n, suffix |-> TMP_SUFFIX]

config_file == TmpName(ncalls)

\* Batch.__init__: the collection is stored as given.
Init ==
    /\ stages \in Pipelines
    /\ isList \in BOOLEAN
    /\ itpos = 0
    /\ ncalls = 0
    /\ op = "none"
    /\ pc = "idle"
    /\ input = <<>>
    /\ rnd = NoRender
    /\ tmpfiles = {}
    /\ tmpBuf = <<>>
    /\ tmpDisk = <<>>
    /\ created = {}
    /\ invoked = <<>>
    /\ proc = NoProcess
    /\ exc = NoOutcome
    /\ result = NoOutcome
    /\ returned = <<>>

\* ------------------------------------------------- get_batch_config_str(p)
Render_partial(p) ==
    LET r == get_batch_config_str(stages, IterStart(isList, itpos), p)
    IN  /\ pc = "idle"
        /\ ncalls < MaxCalls
        /\ ncalls' = ncalls + 1
        /\ op' = "render"
        /\ input' = p
        /\ rnd' = [r EXCEPT !.returned = TRUE, !.text = Join(r.lines)]
        /\ itpos' = r.consumed
        /\ result' = Outcome("ok", <<>>, 0, NoError)
        /\ returned' = Append(returned, <<p, Join(r.lines)>>)
        /\ created' = {}
        /\ invoked' = <<>>
        /\ proc' = NoProcess
        /\ UNCHANGED <<stages, isList, pc, tmpfiles, tmpBuf, tmpDisk, exc>>

\* A call of get_batch_config_str by the caller.
Render(p) ==
    LET r == get_batch_config_str(stages, IterStart(isList, itpos), p)
    IN  /\ pc = "idle"
        /\ ncalls < MaxCalls
        /\ ncalls' = ncalls + 1
        /\ op' = "render"
        /\ input' = p
        /\ rnd' = r
        /\ itpos' = r.consumed
        /\ result' = IF r.returned THEN Outcome("ok", <<>>, 0, NoError)
                     ELSE Outcome("StageError", <<>>, 0, r.err)
        /\ returned' = IF r.returned THEN Append(returned, <<p, r.text>>) ELSE returned
        /\ created' = {}
        /\ invoked' = <<>>
        /\ proc' = NoProcess
        /\ UNCHANGED <<stages, isList, pc, tmpfiles, tmpBuf, tmpDisk, exc>>

\* ---------------------------------------------------------------- __call__
EnterRun_nofile(p) ==
    /\ pc = "idle"
    /\ ncalls < MaxCalls
    /\ ncalls' = ncalls + 1
    /\ op' = "run"
    /\ pc' = "entered"
    /\ input' = p
    /\ rnd' = NoRender
    /\ tmpBuf' = <<>>
    /\ tmpDisk' = <<>>
    /\ created' = {}
    /\ invoked' = <<>>
    /\ proc' = NoProcess
    /\ exc' = NoOutcome
    /\ result' = NoOutcome
    /\ UNCHANGED <<stages, isList, itpos, tmpfiles, returned>>

\* with NamedTemporaryFile("w", suffix=".txt") as config_file: the file is
\* created, empty, before the body of the with block is evaluated.
EnterRun(p) ==
    /\ pc = "idle"
    /\ ncalls < MaxCalls
    /\ ncalls' = ncalls + 1
    /\ op' = "run"
    /\ pc' = "entered"
    /\ input' = p
    /\ rnd' = NoRender
    /\ tmpfiles' = tmpfiles \cup {TmpName(ncalls + 1)}
    /\ tmpBuf' = <<>>
    /\ tmpDisk' = <<>>
    /\ created' = {TmpName(ncalls + 1)}
    /\ invoked' = <<>>
    /\ proc' = NoProcess
    /\ exc' = NoOutcome
    /\ result' = NoOutcome
    /\ UNCHANGED <<stages, isList, itpos, returned>>

\* NamedTemporaryFile itself fails: nothing was created, the with block is
\* never entered.
EnterRunFail(p) ==
    /\ pc = "idle"
    /\ ncalls < MaxCalls
    /\ ncalls' = ncalls + 1
    /\ op' = "run"
    /\ input' = p
    /\ rnd' = NoRender
    /\ created' = {}
    /\ invoked' = <<>>
    /\ proc' = NoProcess
    /\ exc' = NoOutcome
    /\ result' = Outcome("ResourceError", <<>>, 0, NoError)
    /\ UNCHANGED <<stages, isList, itpos, pc, tmpfiles, tmpBuf, tmpDisk, returned>>

\* The argument of config_file.write is evaluated: self.get_batch_config_str(...)
RunRender ==
    LET r == get_batch_config_str(stages, IterStart(isList, itpos), input)
    IN  /\ pc = "entered"
        /\ rnd' = r
        /\ itpos' = r.consumed
        /\ returned' = IF r.returned THEN Append(returned, <<input, r.text>>) ELSE returned
        /\ IF r.returned
           THEN pc' = "rendered" /\ exc' = exc
           ELSE pc' = "exiting" /\ exc' = Outcome("StageError", <<>>, 0, r.err)
        /\ UNCHANGED <<stages, isList, ncalls, op, input, tmpfiles, tmpBuf, tmpDisk,
                       created, invoked, proc, result>>

\* config_file.write(text): the text goes to the file object's buffer.
Write ==
    /\ pc = "rendered"
    /\ tmpBuf' = tmpBuf \o rnd.text
    /\ pc' = "written"
    /\ UNCHANGED <<stages, isList, itpos, ncalls, op, input, rnd, tmpfiles, tmpDisk,
                   created, invoked, proc, exc, result, returned>>

WriteFail ==
    /\ pc = "rendered"
    /\ exc' = Outcome("ResourceError", <<>>, 0, NoError)
    /\ pc' = "exiting"
    /\ UNCHANGED <<stages, isList, itpos, ncalls, op, input, rnd, tmpfiles, tmpBuf,
                   tmpDisk, created, invoked, proc, result, returned>>

Flush_noop ==
    /\ pc = "written"
    /\ pc' = "flushed"
    /\ UNCHANGED <<stages, isList, itpos, ncalls, op, input, rnd, tmpfiles, tmpBuf,
                   tmpDisk, created, invoked, proc, exc, result, returned>>

\* config_file.flush(): the buffer reaches the file.
Flush ==
    /\ pc = "written"
    /\ tmpDisk' = tmpDisk \o tmpBuf
    /\ tmpBuf' = <<>>
    /\ pc' = "flushed"
    /\ UNCHANGED <<stages, isList, itpos, ncalls, op, input, rnd, tmpfiles, created,
                   invoked, proc, exc, result, returned>>

FlushFail ==
    /\ pc = "written"
    /\ exc' = Outcome("ResourceError", <<>>, 0, NoError)
    /\ pc' = "exiting"
    /\ UNCHANGED <<stages, isList, itpos, ncalls, op, input, rnd, tmpfiles, tmpBuf,
                   tmpDisk, created, invoked, proc, result, returned>>

\* subprocess.run(["sbebatch", config_file.name], check=True): the child starts.
Spawn ==
    /\ pc = "flushed"
    /\ invoked' = Append(invoked, <<SBEBATCH, config_file>>)
    /\ proc' = [st |-> "running", returncode |-> 0]
    /\ pc' = "running"
    /\ UNCHANGED <<stages, isList, itpos, ncalls, op, input, rnd, tmpfiles, tmpBuf,
                   tmpDisk, created, exc, result, returned>>

\* The executable cannot be started (not found, not executable).
SpawnFail ==
    /\ pc = "flushed"
    /\ invoked' = Append(invoked, <<SBEBATCH, config_file>>)
    /\ exc' = Outcome("OSError", <<SBEBATCH, config_file>>, 0, NoError)
    /\ pc' = "exiting"
    /\ UNCHANGED <<stages, isList, itpos, ncalls, op, input, rnd, tmpfiles, tmpBuf,
                   tmpDisk, created, proc, result, returned>>

ProcessExit_unchecked(rc) ==
    /\ pc = "running"
    /\ proc' = [st |-> "exited", returncode |-> rc]
    /\ pc' = "exiting"
    /\ UNCHANGED <<stages, isList, itpos, ncalls, op, input, rnd, tmpfiles, tmpBuf,
                   tmpDisk, created, invoked, exc, result, returned>>

ProcessExit_retry(rc) ==
    /\ pc = "running"
    /\ proc' = [st |-> "exited", returncode |-> rc]
    /\ IF rc = 0
       THEN pc' = "exiting" /\ exc' = exc
       ELSE IF Len(invoked) < 2
       THEN pc' = "flushed" /\ exc' = exc
       ELSE pc' = "exiting" /\ exc' = Outcome("ProcessFailure", Last(invoked), rc, NoError)
    /\ UNCHANGED <<stages, isList, itpos, ncalls, op, input, rnd, tmpfiles, tmpBuf,
                   tmpDisk, created, invoked, result, returned>>

\* The child ends with status rc; check=True turns a non-zero status into
\* CalledProcessError(rc, cmd).
ProcessExit(rc) ==
    /\ pc = "running"
    /\ proc' = [st |-> "exited", returncode |-> rc]
    /\ pc' = "exiting"
    /\ exc' = IF rc = 0 THEN exc
              ELSE Outcome("ProcessFailure", Last(invoked), rc, NoError)
    /\ UNCHANGED <<stages, isList, itpos, ncalls, op, input, rnd, tmpfiles, tmpBuf,
                   tmpDisk, created, invoked, result, returned>>

CtxExit_keep_on_error ==
    /\ pc = "exiting"
    /\ tmpfiles' = IF exc = NoOutcome THEN tmpfiles \ {config_file} ELSE tmpfiles
    /\ tmpBuf' = <<>>
    /\ result' = IF exc = NoOutcome THEN Outcome("ok", <<>>, 0, NoError) ELSE exc
    /\ exc' = NoOutcome
    /\ pc' = "idle"
    /\ UNCHANGED <<stages, isList, itpos, ncalls, op, input, rnd, tmpDisk, created,
                   invoked, proc, returned>>

\* The with block is left, normally or by an exception: config_file is closed
\* and deleted, then the exception, if any, reaches the caller.
CtxExit ==
    /\ pc = "exiting"
    /\ tmpfiles' = tmpfiles \ {config_file}
    /\ tmpBuf' = <<>>
    /\ result' = IF exc = NoOutcome THEN Outcome("ok", <<>>, 0, NoError) ELSE exc
    /\ exc' = NoOutcome
    /\ pc' = "idle"
    /\ UNCHANGED <<stages, isList, itpos, ncalls, op, input, rnd, tmpDisk, created,
                   invoked, proc, returned>>

Next ==
    \/ \E p \in Patterns : Render(p)
    \/ \E p \in Patterns : EnterRun(p)
    \/ \E p \in Patterns : EnterRunFail(p)
    \/ RunRender
    \/ Write
    \/ WriteFail
    \/ Flush
    \/ FlushFail
    \/ Spawn
    \/ SpawnFail
    \/ \E rc \in ExitCodes : ProcessExit(rc)
    \/ CtxExit

Spec == Init /\ [][Next]_vars

\* ================================================================== claims
\* Helpers of the statements below; none of them is used by the model above.

\* text.split("\n")
RECURSIVE SplitLines(_)
SplitLines(t) ==
    IF \A j \in 1..Len(t) : t[j] # NL THEN <<t>>
    ELSE LET f == CHOOSE j \in 1..Len(t) : t[j] = NL /\ \A h \in 1..(j - 1) : t[h] # NL
         IN  <<SubSeq(t, 1, f - 1)>> \o SplitLines(SubSeq(t, f + 1, Len(t)))

\* nm is path with its directory component taken off.
IsBaseNameOf(nm, path) ==
    /\ Len(nm) <= Len(path)
    /\ nm = SubSeq(path, Len(path) - Len(nm) + 1, Len(path))
    /\ \A j \in 1..Len(nm) : nm[j] # SEP
    /\ Len(nm) = Len(path) \/ path[Len(path) - Len(nm)] = SEP

\* Stages the loop of the last get_batch_config_str call went over.
Iterated == Len(stages) - rnd.start + 1

RunOver == op = "run" /\ pc = "idle"

\* C1: a render that returns yields, for the n stages it goes over (all of
\* them for a reusable sequence), exactly n + 1 newline-separated lines and no
\* trailing newline; the first line is the header comment and line i + 1 is
\* the batch-mode exec string of stage i, in sequence order.
C1_RenderLines ==
    rnd.returned =>
        LET ls == SplitLines(rnd.text)
        IN  /\ isList => rnd.start = 1
            /\ Len(ls) = Iterated + 1
            /\ ls[1] = config_header_comment
            /\ rnd.text # <<>> /\ Last(rnd.text) # NL
            /\ \A i \in 1..Iterated :
                   ls[i + 1] = get_exec_str(stages[rnd.start + i - 1],
                                            rnd.log[2 * i - 1].arg, TRUE)
            /\ stages = <<>> => rnd.text = config_header_comment

C1_Witness ==
    /\ rnd.returned
    /\ isList
    /\ Len(stages) = 2
    /\ Len(SplitLines(rnd.text)) = 3

\* C2: the first stage of a render receives the caller's raw pattern in both
\* of its functions, and every later stage receives the base file name of the
\* output path the stage before it declared for its own input.
C2_Threading ==
    /\ \A j \in 1..Len(rnd.log) :
           rnd.log[j].stage = rnd.start => rnd.log[j].arg = rnd.input
    /\ \A j, h \in 1..Len(rnd.log) :
           rnd.log[h].stage = rnd.log[j].stage + 1 =>
               IsBaseNameOf(rnd.log[h].arg,
                            output_file_path(stages[rnd.log[j].stage], rnd.log[j].arg))
    /\ (rnd.returned /\ rnd.start = 1 /\ stages = <<"A", "C">>
            /\ rnd.input = <<"raw*.hex">>) =>
           rnd.text = config_header_comment
                      \o <<NL, "stageA -i ", "raw*.hex", NL, "stageC -i ", "out_a.cnv">>

C2_Witness ==
    /\ rnd.returned
    /\ Len(rnd.log) = 4
    /\ rnd.log[1].arg = <<"data", SEP, "raw*.hex">>
    /\ rnd.log[2].arg = <<"data", SEP, "raw*.hex">>
    /\ rnd.log[3].arg = <<"raw*.hex", ".cnv">>
    /\ rnd.log[4].arg = <<"raw*.hex", ".cnv">>

SameInputSameText ==
    \A a, b \in 1..Len(returned) :
        returned[a][1] = returned[b][1] => returned[a][2] = returned[b][2]

RenderHasNoEffect ==
    op = "render" => tmpfiles = {} /\ created = {} /\ invoked = <<>> /\ proc = NoProcess

\* C3 as stated: two renders of the same object with the same input return
\* the same text, whatever collection the constructor stored, and a render
\* writes no file and starts no process.
C3_Original == SameInputSameText /\ RenderHasNoEffect

\* C3 as amended: the same, for a reusable stage sequence.
C3_Amended == (isList => SameInputSameText) /\ RenderHasNoEffect

C3_Witness ==
    /\ isList
    /\ op = "render"
    /\ Len(stages) = 2
    /\ Len(returned) = 2
    /\ returned[1] = returned[2]
    /\ Len(SplitLines(returned[2][2])) = 3

\* C4: when a run has ended, on whatever path, the temporary file it created
\* no longer exists.
C4_NoLeak ==
    pc = "idle" => tmpfiles = {}

C4_Witness ==
    /\ RunOver
    /\ result.kind = "ResourceError"
    /\ created # {}
    /\ tmpfiles = {}

\* C5: a non-zero exit status makes run fail with a ProcessFailure carrying
\* the command and the status, the temporary file being gone when the caller
\* sees it; a zero status makes run complete normally.
C5_ProcessFailure ==
    (RunOver /\ proc.st = "exited") =>
        IF proc.returncode # 0
        THEN /\ result = Outcome("ProcessFailure", <<SBEBATCH, config_file>>,
                                 proc.returncode, NoError)
             /\ config_file \notin tmpfiles
        ELSE result = Outcome("ok", <<>>, 0, NoError)

C5_Witness ==
    /\ RunOver
    /\ proc = [st |-> "exited", returncode |-> 2]
    /\ result.kind = "ProcessFailure"
    /\ created = {config_file}

\* C6: when a function of stage k raises, the failure reaches the caller as
\* it is, no function of a later stage is called, no text is returned, and a
\* run does not invoke the external executable.
C6_StageError ==
    rnd.err # NoError =>
        /\ ~rnd.returned /\ rnd.text = <<>>
        /\ rnd.log # <<>>
        /\ Last(rnd.log).stage = rnd.err.stage /\ Last(rnd.log).fn = rnd.err.fn
        /\ \A j \in 1..Len(rnd.log) : rnd.log[j].stage <= rnd.err.stage
        /\ pc \in {"idle", "exiting"}
        /\ pc = "idle" => result = Outcome("StageError", <<>>, 0, rnd.err)
        /\ pc = "exiting" => exc = Outcome("StageError", <<>>, 0, rnd.err)
        /\ invoked = <<>> /\ proc = NoProcess
        /\ Len(returned) < ncalls

C6_Witness ==
    /\ RunOver
    /\ result.kind = "StageError"
    /\ Len(stages) = 2
    /\ rnd.err = [stage |-> 1, fn |-> "output_file_path"]
    /\ invoked = <<>>

\* A run whose rendering, write and flush succeeded.
FileWritten == op = "run" /\ rnd.returned /\ tmpDisk = rnd.text

\* C7: a run whose rendering and file write succeed invokes sbebatch exactly
\* once, with the temporary file's path as its sole argument, waits for it,
\* and never invokes it again whatever the exit status; so does a run over
\* an empty stage sequence, whose file holds the header line alone.
C7_InvokedOnce ==
    /\ Len(invoked) <= 1
    /\ \A j \in 1..Len(invoked) : invoked[j] = <<SBEBATCH, config_file>>
    /\ (FileWritten /\ pc \in {"running", "exiting", "idle"}) => Len(invoked) = 1
    /\ pc \in {"exiting", "idle"} => proc.st # "running"
    /\ (FileWritten /\ stages = <<>>) => tmpDisk = config_header_comment

C7_Witness ==
    /\ RunOver
    /\ stages = <<>>
    /\ tmpDisk = config_header_comment
    /\ Len(invoked) = 1
    /\ proc = [st |-> "exited", returncode |-> 1]

\* C8: when sbebatch is started the temporary file exists and holds, flushed,
\* exactly the text render returns for the pipeline and the input pattern; the
\* file is deleted only after the process has ended.
C8_FlushedBeforeSpawn ==
    /\ invoked # <<>> =>
           /\ rnd.returned
           /\ tmpDisk = rnd.text
           /\ tmpBuf = <<>>
           /\ isList => tmpDisk = get_batch_config_str(stages, 1, input).text
    /\ pc = "running" => config_file \in tmpfiles
    /\ (op = "run" /\ created # {} /\ config_file \notin tmpfiles) =>
           pc = "idle" /\ proc.st # "running"

C8_Witness ==
    /\ pc = "running"
    /\ proc.st = "running"
    /\ Len(stages) = 2
    /\ config_file \in tmpfiles
    /\ Len(SplitLines(tmpDisk)) = 3

\* C9 as stated: run renders first and acquires the temporary file only
\* afterwards, so a run in which a stage raises has created no temporary file.
C9_Original ==
    /\ (op = "run" /\ created # {}) => rnd.returned
    /\ (op = "run" /\ rnd.err # NoError) => created = {}

\* C9 as amended: run acquires the temporary file first and renders while the
\* file exists, still empty; a run in which a stage raises has created the
\* file, written nothing to it, and has deleted it when the caller sees the
\* failure.
C9_Amended ==
    /\ (op = "run" /\ pc = "entered") =>
           rnd = NoRender /\ config_file \in tmpfiles /\ tmpDisk = <<>> /\ tmpBuf = <<>>
    /\ (op = "run" /\ rnd # NoRender) => created = {config_file}
    /\ (op = "run" /\ rnd.err # NoError) => tmpDisk = <<>> /\ tmpBuf = <<>>
    /\ (RunOver /\ rnd.err # NoError) => config_file \notin tmpfiles

C9_Witness ==
    /\ RunOver
    /\ rnd.err # NoError
    /\ created = {config_file}
    /\ tmpfiles = {}

\* C10: a render over a reusable sequence in which no stage raises calls, for
\* each stage in turn, the exec-string function once with batch_mode true and
\* then the output-path function once with the same input, the last stage
\* included; a last stage whose output-path function raises makes the render
\* fail although every line had been produced.
C10_CallOrder ==
    /\ (isList /\ rnd.returned) =>
           /\ Len(rnd.log) = 2 * Len(stages)
           /\ \A i \in 1..Len(stages) :
                  /\ rnd.log[2 * i - 1].stage = i
                  /\ rnd.log[2 * i - 1].fn = "get_exec_str"
                  /\ rnd.log[2 * i - 1].kwargs = {<<"batch_mode", TRUE>>}
                  /\ rnd.log[2 * i] =
                         StageCall(i, "output_file_path", rnd.log[2 * i - 1].arg, {})
    /\ (isList /\ rnd.start = 1 /\ stages # <<>> /\ Last(stages) = "Y"
            /\ \A i \in 1..(Len(stages) - 1) : stages[i] \notin {"X", "Y"}) =>
           /\ ~rnd.returned
           /\ rnd.err = [stage |-> Len(stages), fn |-> "output_file_path"]
           /\ Len(rnd.lines) = Len(stages) + 1
           /\ Len(rnd.log) = 2 * Len(stages)

C10_Witness ==
    /\ isList
    /\ op = "render"
    /\ stages = <<"A", "Y">>
    /\ rnd.err = [stage |-> 2, fn |-> "output_file_path"]
    /\ Len(rnd.lines) = 3

====
